---- MODULE Spec2Model ----
(***************************************************************************)
(* The LM Studio connector gateway of src/llm_server.py as a state machine. *)
(*                                                                         *)
(* Text (lines of the backend's event stream, bodies, messages, URLs) is a *)
(* sequence of tokens: a token is a piece of text that the code never      *)
(* looks inside.  The pieces the code does look at are tokens of their     *)
(* own: the data-frame prefix "data: ", whitespace, the end marker         *)
(* "[DONE]", the URL separator "/".                                        *)
(***************************************************************************)
EXTENDS Integers, Sequences, FiniteSets, TLC

VARIABLES
    config,   \* the global Config object: lm_studio_url, api_base, timeout
    pc,       \* per request: where its handler stands
    req,      \* per request: the inbound request
    calls,    \* per request: the calls issued to the backend, each by its address
    backend,  \* per request: how the backend answered the call
    sent,     \* per request: the lines the backend has written to its stream
    bclosed,  \* per request: the backend has ended its stream (EOF follows)
    nread,    \* per request: how many of those lines aiter_lines() has handed over
    out,      \* per request: the events yielded to the caller, in order
    how,      \* per request: the way the generator left its body
    resp,     \* per request: the HTTP response the caller receives
    acked,    \* the lm_studio_url of the last POST /config acknowledged, if any
    catalog,  \* per request: the data list GET /v1/models answered with
    inbound,  \* the completion request a caller sent (request building)
    outbound, \* the backend-bound request built from it (request building)
    gone      \* per request: the caller has disconnected: "no", "yes", or "observed"
              \* once the cancellation has reached the generator

vars == <<config, pc, req, calls, backend, sent, bclosed, nread, out, how, resp,
          acked, catalog, inbound, outbound, gone>>

-----------------------------------------------------------------------------
(* Bounds *)

\* the backend writes at most this many lines to one stream
MaxLines == 3

\* the backend's model listing holds at most this many entries
MaxModels == 2

\* a completion request holds at most this many messages
MaxMsgs == 2

\* with two streams open at once, each backend writes at most this many lines
MaxConcLines == 2

-----------------------------------------------------------------------------
(* Text *)

DATA == "data: "
WS == " "
DONE == "[DONE]"
NL2 == "\n\n"
SLASH == "/"

RECURSIVE LStrip(_)
LStrip(s) == IF s # <<>> /\ Head(s) = WS THEN LStrip(Tail(s)) ELSE s

RECURSIVE RStrip(_)
RStrip(s) == IF s # <<>> /\ s[Len(s)] = WS THEN RStrip(SubSeq(s, 1, Len(s) - 1)) ELSE s

\* str.strip()
Strip(s) == RStrip(LStrip(s))

\* every line that is not blank is taken for a data frame
Mut_StartsWithData(line) == line # <<>>

\* str.startswith("data: ")
StartsWithData(line) == line # <<>> /\ Head(line) = DATA

\* the prefix is left on the payload
Mut_AfterPrefix(line) == line

\* chunk[6:], on a line that starts with the six characters of "data: "
AfterPrefix(line) == Tail(line)

\* str(int), on the status codes the backend answers with
StatusStr(s) ==
    CASE s = 200 -> "200"
      [] s = 404 -> "404"
      [] s = 500 -> "500"
      [] s = 503 -> "503"
      [] s = 504 -> "504"

\* json.dumps({'error': {'message': msg, 'type': type}})
ErrorJson(msg, type) ==
    <<"{error: {message: ">> \o msg \o <<", type: ", type, "}}">>

-----------------------------------------------------------------------------
(* Config *)

DefaultUrl == <<"http://localhost:1234">>

DefaultTimeout == 300

\* one trailing separator is removed, not all of them
Mut_RStripSlash(u) == IF u # <<>> /\ u[Len(u)] = "/" THEN SubSeq(u, 1, Len(u) - 1) ELSE u

RECURSIVE RStripSlash(_)
\* str.rstrip('/')
RStripSlash(u) ==
    IF u # <<>> /\ u[Len(u)] = SLASH THEN RStripSlash(SubSeq(u, 1, Len(u) - 1)) ELSE u

\* f"{self.lm_studio_url}/v1"
ApiBase(url) == url \o <<"/v1">>

\* Config.__init__
ConfigInit ==
    [lm_studio_url |-> DefaultUrl, api_base |-> ApiBase(DefaultUrl), timeout |-> DefaultTimeout]

\* the versioned API path is not recomputed
Mut_update_url(c, url) == [c EXCEPT !.lm_studio_url = url]

\* Config.update_url
update_url(c, url) ==
    [c EXCEPT !.lm_studio_url = RStripSlash(url), !.api_base = ApiBase(RStripSlash(url))]

\* the address is written into the call instead of read from config
Mut_CompletionsUrl(c) == <<"http://localhost:1234", "/v1", "/chat/completions">>

\* f"{config.api_base}/chat/completions"
CompletionsUrl(c) == c.api_base \o <<"/chat/completions">>

\* the lm_studio_url values POST /config is called with
ConfigUrls ==
    { <<"http://host:9999", SLASH, SLASH>>,     \* trailing slashes to trim
      <<"http://other:8080">> }                 \* nothing to trim

-----------------------------------------------------------------------------
(* Requests, the backend, exceptions *)

\* the requests in flight; their handlers share nothing but config
Procs == {"r1", "r2"}

\* the requests of the specification Spec: one request at a time
Reqs == {"r1"}

\* the statuses the backend answers with
BackendStatuses == {200, 404, 500, 503}

\* the lines the backend writes to its event stream
BackendLines ==
    { <<DATA, "{c1}">>,            \* a chunk
      <<DATA, "{c2}">>,            \* another chunk
      <<DATA, "junk">>,            \* a data frame whose payload is not JSON
      <<DATA, DONE>>,              \* the end marker
      <<DATA, DONE, WS>>,          \* the end marker with trailing whitespace
      <<DATA, DONE, "{c1}">>,      \* a payload that begins with the marker's text
      <<>>,                        \* a blank line
      <<": ping">> }               \* a comment line

NoBackend == [kind |-> "none", status |-> 0, body |-> <<>>, msg |-> <<>>]

NoResp == [status |-> 0, body |-> <<>>]

NoReq == [endpoint |-> "none", stream |-> FALSE]

\* no completion request is being built
NoInbound == [model |-> "none"]
NoOutbound == [model |-> "none"]

\* an event of the stream: its text, and the yield statement that produced it
Event(text, site) == [text |-> text, site |-> site]

\* f"data: {payload}\n\n"
Frame(payload) == <<DATA>> \o payload \o <<NL2>>

\* str(e) of the transport's exceptions
TransportMessages == { <<"All connection attempts failed">>, <<>> }

\* the call is issued again when the first one is not answered (a retry)
Mut_IssueCall(cs, c) == Append(Append(cs, c.api_base \o <<"/chat/completions">>),
                               c.api_base \o <<"/chat/completions">>)

\* the call to the backend's completion endpoint, added to the calls issued:
\* one client.post or client.stream, at the address config holds at that moment
IssueCall(cs, c) == Append(cs, CompletionsUrl(c))

\* the status branch of the relay: the events it yields before it returns
StatusChunk(s) ==
    <<Event(Frame(ErrorJson(<<"LM Studio error: ", StatusStr(s)>>, "api_error")), "status")>>

\* the exception is logged and swallowed: nothing is yielded
Mut_ExceptChunk(msg) == <<>>

\* the except clause of the relay: the events it yields
ExceptChunk(msg) ==
    <<Event(Frame(ErrorJson(msg, "connection_error")), "except")>>

-----------------------------------------------------------------------------
(* The streaming relay: stream_chat_completion *)

\* chat_completions with stream=true: the StreamingResponse is returned, its
\* generator has not run yet
ChatCompletionsStream(r) ==
    /\ pc[r] = "idle"
    /\ req' = [req EXCEPT ![r] = [endpoint |-> "chat", stream |-> TRUE]]
    /\ resp' = [resp EXCEPT ![r] = [status |-> 200, body |-> <<"text/event-stream">>]]
    /\ pc' = [pc EXCEPT ![r] = "stream_start"]
    /\ UNCHANGED <<config, calls, backend, sent, bclosed, nread, out, how, acked, catalog, inbound, outbound, gone>>

\* client.stream("POST", f"{config.api_base}/chat/completions", ...)
StreamOpen(r) ==
    /\ pc[r] = "stream_start"
    /\ calls' = [calls EXCEPT ![r] = IssueCall(@, config)]
    /\ pc' = [pc EXCEPT ![r] = "stream_wait"]
    /\ UNCHANGED <<config, req, backend, sent, bclosed, nread, out, how, resp, acked, catalog, inbound, outbound, gone>>

\* the call raises before a response arrives: except Exception, one error chunk
StreamConnectFail(r) ==
    /\ pc[r] = "stream_wait"
    /\ \E kind \in {"timeout", "transport"}, msg \in TransportMessages :
          /\ backend' = [backend EXCEPT ![r] = [NoBackend EXCEPT !.kind = kind, !.msg = msg]]
          /\ out' = [out EXCEPT ![r] = @ \o ExceptChunk(msg)]
    /\ how' = [how EXCEPT ![r] = "except"]
    /\ pc' = [pc EXCEPT ![r] = "closed"]
    /\ UNCHANGED <<config, req, calls, sent, bclosed, nread, resp, acked, catalog, inbound, outbound, gone>>

\* the response's status line arrives: response.status_code != 200 yields one
\* error chunk and returns, 200 enters the loop over aiter_lines()
StreamStatus(r) ==
    /\ pc[r] = "stream_wait"
    /\ \E s \in BackendStatuses :
          /\ backend' = [backend EXCEPT ![r] = [NoBackend EXCEPT !.kind = "response", !.status = s]]
          /\ IF s # 200
                THEN /\ out' = [out EXCEPT ![r] = @ \o StatusChunk(s)]
                     /\ how' = [how EXCEPT ![r] = "status"]
                     /\ pc' = [pc EXCEPT ![r] = "closed"]
                ELSE /\ pc' = [pc EXCEPT ![r] = "relay"]
                     /\ UNCHANGED <<out, how>>
    /\ UNCHANGED <<config, req, calls, sent, bclosed, nread, resp, acked, catalog, inbound, outbound, gone>>

\* the backend writes one more line to the stream it answered 200 on, while
\* the relay holds the connection open
BackendSend(r) ==
    /\ pc[r] = "relay"
    /\ backend[r].kind = "response" /\ backend[r].status = 200
    /\ req[r].stream
    /\ ~bclosed[r]
    /\ Len(sent[r]) < MaxLines
    /\ \E line \in BackendLines : sent' = [sent EXCEPT ![r] = Append(@, line)]
    /\ UNCHANGED <<config, pc, req, calls, backend, bclosed, nread, out, how, resp, acked, catalog, inbound, outbound, gone>>

\* the backend ends its stream
BackendClose(r) ==
    /\ pc[r] = "relay"
    /\ backend[r].kind = "response" /\ backend[r].status = 200
    /\ req[r].stream
    /\ ~bclosed[r]
    /\ bclosed' = [bclosed EXCEPT ![r] = TRUE]
    /\ UNCHANGED <<config, pc, req, calls, backend, sent, nread, out, how, resp, acked, catalog, inbound, outbound, gone>>

\* the loop goes on after the end marker (the break is missing)
Mut_RelayStep(line) ==
    IF StartsWithData(line)
       THEN IF Strip(AfterPrefix(line)) = <<DONE>>
               THEN [events |-> <<Event(Frame(<<DONE>>), "done")>>, brk |-> FALSE]
               ELSE [events |-> <<Event(Frame(AfterPrefix(line)), "relay")>>, brk |-> FALSE]
       ELSE [events |-> <<>>, brk |-> FALSE]

\* what the loop body does with one line: the events it yields and whether it breaks
RelayStep(line) ==
    IF StartsWithData(line)
       THEN IF Strip(AfterPrefix(line)) = <<DONE>>
               THEN [events |-> <<Event(Frame(<<DONE>>), "done")>>, brk |-> TRUE]
               ELSE [events |-> <<Event(Frame(AfterPrefix(line)), "relay")>>, brk |-> FALSE]
       ELSE [events |-> <<>>, brk |-> FALSE]

\* every generator iterates the one response object of the first stream
Mut_Upstream(r) == "r1"

\* the response a generator iterates is the one its own client.stream call
\* returned: `client` and `response` are locals of the generator
Upstream(r) == r

\* one iteration of `async for chunk in response.aiter_lines()`
RelayLine(r) ==
    /\ pc[r] = "relay"
    /\ nread[r] < Len(sent[Upstream(r)])
    /\ LET step == RelayStep(sent[Upstream(r)][nread[r] + 1]) IN
          /\ nread' = [nread EXCEPT ![r] = @ + 1]
          /\ out' = [out EXCEPT ![r] = @ \o step.events]
          /\ IF step.brk
                THEN /\ how' = [how EXCEPT ![r] = "break"]
                     /\ pc' = [pc EXCEPT ![r] = "closed"]
                ELSE UNCHANGED <<how, pc>>
    /\ UNCHANGED <<config, req, calls, backend, sent, bclosed, resp, acked, catalog, inbound, outbound, gone>>

\* aiter_lines() is exhausted: the loop ends and the generator returns
RelayEOF(r) ==
    /\ pc[r] = "relay"
    /\ nread[r] = Len(sent[Upstream(r)])
    /\ bclosed[Upstream(r)]
    /\ how' = [how EXCEPT ![r] = "eof"]
    /\ pc' = [pc EXCEPT ![r] = "closed"]
    /\ UNCHANGED <<config, req, calls, backend, sent, bclosed, nread, out, resp, acked, catalog, inbound, outbound, gone>>

\* aiter_lines() raises (the connection drops): except Exception, one error chunk
RelayDrop(r) ==
    /\ pc[r] = "relay"
    /\ \E msg \in TransportMessages :
          out' = [out EXCEPT ![r] = @ \o ExceptChunk(msg)]
    /\ how' = [how EXCEPT ![r] = "except"]
    /\ pc' = [pc EXCEPT ![r] = "closed"]
    /\ UNCHANGED <<config, req, calls, backend, sent, bclosed, nread, resp, acked, catalog, inbound, outbound, gone>>

-----------------------------------------------------------------------------
(* The caller of a stream disconnects *)

\* the lines of a backend that writes chunks and its end marker only
ShortLines == { <<DATA, "{c1}">>, <<DATA, DONE>> }

\* the backend writes one more line, of ShortLines
BackendSendShort(r) ==
    /\ pc[r] = "relay"
    /\ backend[r].kind = "response" /\ backend[r].status = 200
    /\ req[r].stream
    /\ ~bclosed[r]
    /\ Len(sent[r]) < MaxLines
    /\ \E line \in ShortLines : sent' = [sent EXCEPT ![r] = Append(@, line)]
    /\ UNCHANGED <<config, pc, req, calls, backend, bclosed, nread, out, how, resp,
                   acked, catalog, inbound, outbound, gone>>

\* the caller closes its connection while the stream is open
CallerDisconnect(r) ==
    /\ pc[r] \in {"stream_start", "stream_wait", "relay"}
    /\ gone[r] = "no"
    /\ gone' = [gone EXCEPT ![r] = "yes"]
    /\ UNCHANGED <<config, pc, req, calls, backend, sent, bclosed, nread, out, how, resp,
                   acked, catalog, inbound, outbound>>

\* a bare except: every exception is caught, cancellation included
Mut_ExceptExceptionCatches(cls) == TRUE

\* `except Exception` catches the subclasses of Exception; CancelledError and
\* GeneratorExit derive from BaseException
ExceptExceptionCatches(cls) == cls \notin {"CancelledError", "GeneratorExit"}

\* the server cancels the response's task: CancelledError is raised at the
\* generator's await, or GeneratorExit at its yield; no except clause of the
\* generator catches it, and the `async with` blocks close the connection
RelayCancelled(r) ==
    /\ pc[r] \in {"stream_start", "stream_wait", "relay"}
    /\ gone[r] = "yes"
    /\ \E cls \in {"CancelledError", "GeneratorExit"} :
          IF pc[r] # "stream_start" /\ ExceptExceptionCatches(cls)
             THEN /\ out' = [out EXCEPT ![r] = @ \o ExceptChunk(<<>>)]
                  /\ how' = [how EXCEPT ![r] = "except"]
             ELSE /\ out' = out
                  /\ how' = [how EXCEPT ![r] = "cancelled"]
    /\ gone' = [gone EXCEPT ![r] = "observed"]
    /\ pc' = [pc EXCEPT ![r] = "closed"]
    /\ UNCHANGED <<config, req, calls, backend, sent, bclosed, nread, resp,
                   acked, catalog, inbound, outbound>>

-----------------------------------------------------------------------------
(* Two streams at once *)

\* the lines the backend writes to the stream of request r: chunks that name
\* the connection they were written to, and the end marker
TaggedLines(r) == { <<DATA, r>>, <<DATA, DONE>> }

\* the backend writes one more line to the stream of r
BackendSendTagged(r) ==
    /\ pc[r] = "relay"
    /\ backend[r].kind = "response" /\ backend[r].status = 200
    /\ req[r].stream
    /\ ~bclosed[r]
    /\ Len(sent[r]) < MaxConcLines
    /\ \E line \in TaggedLines(r) : sent' = [sent EXCEPT ![r] = Append(@, line)]
    /\ UNCHANGED <<config, pc, req, calls, backend, bclosed, nread, out, how, resp,
                   acked, catalog, inbound, outbound, gone>>

-----------------------------------------------------------------------------
(* Exceptions, JSON, HTTP responses *)

NoExc == [cls |-> "none", status |-> 0, detail |-> <<>>]

\* HTTPException(status_code=status, detail=detail)
HTTPException(status, detail) == [cls |-> "HTTPException", status |-> status, detail |-> detail]

\* an exception of the transport or of the JSON decoder, with its message
Exc(cls, msg) == [cls |-> cls, status |-> 0, detail |-> msg]

\* str(e): an HTTPException prints as "<status_code>: <detail>" (Starlette's
\* __str__), the others as their message
Str(e) ==
    IF e.cls = "HTTPException" THEN <<StatusStr(e.status), ": ">> \o e.detail ELSE e.detail

\* the JSON documents a body may hold
JsonDocs == {"{choices:[m]}", "{choices:[n,m]}", "{choices:[]}", "{}"}

\* the bodies the backend answers with
BackendBodies ==
    { <<"{choices:[m]}">>,          \* a completion
      <<"{choices:[n,m]}">>,        \* a completion with two choices
      <<WS, "{choices:[m]}", WS>>,  \* the same document, with whitespace around it
      <<"{choices:[]}">>,           \* a completion without choices
      <<"{}">>,                     \* an object without a choices key
      <<"<html>">>,                 \* text that is not JSON
      <<>> }                        \* an empty body

\* response.json(): the document, or JSONDecodeError
JsonParse(text) ==
    LET t == Strip(text) IN
    IF Len(t) = 1 /\ t[1] \in JsonDocs
       THEN [ok |-> TRUE, value |-> t[1]]
       ELSE [ok |-> FALSE, value |-> "none"]

\* the JSON text FastAPI renders for a returned value
JsonRender(value) == <<value>>

\* what a function call ends with: a returned value or a raised exception
Return(value) == [raised |-> FALSE, value |-> value, exc |-> NoExc]
Raise(e) == [raised |-> TRUE, value |-> "none", exc |-> e]

\* the answers of the backend to a non-stream call
Outcomes ==
    {[kind |-> "response", status |-> s, body |-> b, msg |-> <<>>] :
        s \in BackendStatuses, b \in BackendBodies}
    \cup {[kind |-> "timeout", status |-> 0, body |-> <<>>, msg |-> <<>>]}
    \cup {[kind |-> "transport", status |-> 0, body |-> <<>>, msg |-> m] : m \in TransportMessages}

\* FastAPI's answer to a handler that returns a value
JsonResponse(value) == [status |-> 200, body |-> JsonRender(value)]

\* FastAPI's answer to a handler that raises HTTPException
ErrorResponse(e) == [status |-> e.status, body |-> <<"{detail: ">> \o e.detail \o <<"}">>]

\* FastAPI's answer to a body that fails the validation of the handler's
\* parameter: 422 Unprocessable Entity, {"detail": [...]}; the handler is not called
ValidationResponse == [status |-> 422, body |-> <<"{detail: ", "validation errors", "}">>]

-----------------------------------------------------------------------------
(* The non-stream path: non_stream_chat_completion *)

\* on 200 the first choice alone is returned instead of the whole document
Mut_NonStreamTry(o) ==
    CASE o.kind = "timeout" -> Raise(Exc("TimeoutException", o.msg))
      [] o.kind = "transport" -> Raise(Exc("ConnectError", o.msg))
      [] o.kind = "response" ->
            IF o.status = 200
               THEN IF JsonParse(o.body).ok
                       THEN Return("{m}")
                       ELSE Raise(Exc("JSONDecodeError", <<"Expecting value">>))
               ELSE Raise(HTTPException(o.status,
                              <<"LM Studio error: ", StatusStr(o.status), " - ">> \o o.body))

\* the body of the try block, given the backend's answer to client.post
NonStreamTry(o) ==
    CASE o.kind = "timeout" -> Raise(Exc("TimeoutException", o.msg))
      [] o.kind = "transport" -> Raise(Exc("ConnectError", o.msg))
      [] o.kind = "response" ->
            IF o.status = 200
               THEN IF JsonParse(o.body).ok
                       THEN Return(JsonParse(o.body).value)
                       ELSE Raise(Exc("JSONDecodeError", <<"Expecting value">>))
               ELSE Raise(HTTPException(o.status,
                              <<"LM Studio error: ", StatusStr(o.status), " - ">> \o o.body))

\* the failure is swallowed and an empty object is returned
Mut_NonStreamExcept(e) == Return("{}")

\* the except clauses: httpx.TimeoutException first, then Exception, which
\* also catches the HTTPException raised in the try block
NonStreamExcept(e) ==
    IF e.cls = "TimeoutException"
       THEN Raise(HTTPException(504, <<"Request timeout">>))
       ELSE Raise(HTTPException(500, Str(e)))

non_stream_chat_completion(o) ==
    IF NonStreamTry(o).raised THEN NonStreamExcept(NonStreamTry(o).exc) ELSE NonStreamTry(o)

\* chat_completions with stream=false: await non_stream_chat_completion(...)
\* inside try, except Exception: raise HTTPException(500, str(e))
ChatNonStreamResult(o) ==
    IF non_stream_chat_completion(o).raised
       THEN Raise(HTTPException(500, Str(non_stream_chat_completion(o).exc)))
       ELSE non_stream_chat_completion(o)

\* the HTTP response of POST /v1/chat/completions with stream=false
ChatNonStreamResponse(o) ==
    IF ChatNonStreamResult(o).raised
       THEN ErrorResponse(ChatNonStreamResult(o).exc)
       ELSE JsonResponse(ChatNonStreamResult(o).value)

\* chat_completions with stream=false, up to the await of client.post
ChatCompletionsNonStream(r) ==
    /\ pc[r] = "idle"
    /\ req' = [req EXCEPT ![r] = [endpoint |-> "chat", stream |-> FALSE]]
    /\ calls' = [calls EXCEPT ![r] = IssueCall(@, config)]
    /\ pc' = [pc EXCEPT ![r] = "ns_wait"]
    /\ UNCHANGED <<config, backend, sent, bclosed, nread, out, how, resp, acked, catalog, inbound, outbound, gone>>

\* the backend's answer arrives and chat_completions runs to its end
ChatNonStreamComplete(r) ==
    /\ pc[r] = "ns_wait"
    /\ req[r].endpoint = "chat"
    /\ \E o \in Outcomes :
          /\ backend' = [backend EXCEPT ![r] = o]
          /\ resp' = [resp EXCEPT ![r] = ChatNonStreamResponse(o)]
    /\ pc' = [pc EXCEPT ![r] = "done"]
    /\ UNCHANGED <<config, req, calls, sent, bclosed, nread, out, how, acked, catalog, inbound, outbound, gone>>

-----------------------------------------------------------------------------
(* POST /ask *)

\* "choices" in response
HasChoicesKey(doc) == doc # "{}"

\* len(response["choices"])
NumChoices(doc) ==
    CASE doc = "{choices:[m]}" -> 1
      [] doc = "{choices:[n,m]}" -> 2
      [] OTHER -> 0

\* response["choices"][0]["message"]["content"]
FirstContent(doc) == IF doc = "{choices:[n,m]}" THEN <<"n">> ELSE <<"m">>

\* the value ask_llm_legacy returns
AskResult(o) ==
    IF non_stream_chat_completion(o).raised
       THEN <<"{error: ">> \o Str(non_stream_chat_completion(o).exc) \o <<"}">>
       ELSE IF HasChoicesKey(non_stream_chat_completion(o).value)
               /\ NumChoices(non_stream_chat_completion(o).value) > 0
               THEN <<"{response: ">> \o FirstContent(non_stream_chat_completion(o).value) \o <<"}">>
               ELSE <<"{error: ", "No response generated", "}">>

\* the JSON bodies callers send to POST /ask: an object, in which prompt may
\* be missing, a string, or null, and model may be missing or a string; or a
\* document that is not an object
AskBodies ==
    [object : {TRUE}, prompt : {"absent", "hi", "None"}, model : {"absent", "x"}]
    \cup {[object |-> FALSE, prompt |-> "absent", model |-> "absent"]}

\* dict.get(key, default)
Get(v, default) == IF v = "absent" THEN default ELSE v

\* the value is a string, as `role: str` and `content: str` require
IsStr(v) == v \notin {"absent", "None"}

\* the prompt is sent as a system message
Mut_AskRequest(b) ==
    [ model |-> Get(b.model, "lm-studio-model"),
      messages |-> <<[role |-> "system", content |-> Get(b.prompt, "")]>>,
      temperature |-> "0.7",
      stream |-> "False" ]

\* the dict ask_llm_legacy passes to non_stream_chat_completion
AskRequest(b) ==
    [ model |-> Get(b.model, "lm-studio-model"),
      messages |-> <<[role |-> "user", content |-> Get(b.prompt, "")]>>,
      temperature |-> "0.7",
      stream |-> "False" ]

\* str(e) of the ValidationError that Message(role="user", content=None) raises
ValidationMessage == <<"1 validation error for Message">>

\* POST /ask arrives: FastAPI validates the body against Dict[str, Any], then
\* ask_llm_legacy runs up to the await of client.post; when the construction
\* of ChatCompletionRequest raises, the except clause returns {"error": str(e)}
AskLlmLegacy(r) ==
    /\ pc[r] = "idle"
    /\ \E b \in AskBodies :
          /\ req' = [req EXCEPT ![r] = [endpoint |-> "ask", stream |-> FALSE, body |-> b]]
          /\ CASE ~b.object ->
                     /\ resp' = [resp EXCEPT ![r] = ValidationResponse]
                     /\ pc' = [pc EXCEPT ![r] = "rejected"]
                     /\ UNCHANGED <<calls, outbound>>
               [] b.object /\ ~IsStr(Get(b.prompt, "")) ->
                     /\ resp' = [resp EXCEPT ![r] =
                                   [status |-> 200,
                                    body |-> <<"{error: ">> \o ValidationMessage \o <<"}">>]]
                     /\ pc' = [pc EXCEPT ![r] = "done"]
                     /\ UNCHANGED <<calls, outbound>>
               [] b.object /\ IsStr(Get(b.prompt, "")) ->
                     /\ calls' = [calls EXCEPT ![r] = IssueCall(@, config)]
                     /\ outbound' = AskRequest(b)
                     /\ pc' = [pc EXCEPT ![r] = "ns_wait"]
                     /\ UNCHANGED resp
    /\ UNCHANGED <<config, backend, sent, bclosed, nread, out, how, acked, catalog, inbound, gone>>

\* the backend's answer arrives and ask_llm_legacy runs to its end
AskComplete(r) ==
    /\ pc[r] = "ns_wait"
    /\ req[r].endpoint = "ask"
    /\ \E o \in Outcomes :
          /\ backend' = [backend EXCEPT ![r] = o]
          /\ resp' = [resp EXCEPT ![r] = [status |-> 200, body |-> AskResult(o)]]
    /\ pc' = [pc EXCEPT ![r] = "done"]
    /\ UNCHANGED <<config, req, calls, sent, bclosed, nread, out, how, acked, catalog, inbound, outbound, gone>>

-----------------------------------------------------------------------------
(* GET /v1/models: list_models *)

\* f"{config.api_base}/models"
ModelsUrl(c) == c.api_base \o <<"/models">>

\* int(time.time()), the value of the clock when a descriptor is made
Times == {"t1", "t2"}

\* ModelInfo(id=id): object, created and owned_by take their defaults
ModelInfo(id, t) == [id |-> id, object |-> "model", created |-> t, owned_by |-> "lm-studio"]

\* [ModelInfo(id="lm-studio-model")]
Placeholder(t) == <<ModelInfo("lm-studio-model", t)>>

\* an entry of the backend's data list: with an id, or without one
ModelEntries ==
    { [hasid |-> TRUE, id |-> "m1"], [hasid |-> TRUE, id |-> "m2"], [hasid |-> FALSE, id |-> "none"] }

\* the lists of at most n entries
EntryLists(n) == UNION { [1..k -> ModelEntries] : k \in 0..n }

\* what the body of the backend's model listing holds: text that is not
\* JSON, the document null, an object without a data key, an object with one
ModelDocs ==
    { [shape |-> "notjson", data |-> <<>>],
      [shape |-> "null", data |-> <<>>],
      [shape |-> "nodata", data |-> <<>>] }
    \cup { [shape |-> "data", data |-> l] : l \in EntryLists(MaxModels) }

\* the answers of the backend to the model listing call
ModelOutcomes ==
    {[kind |-> "response", status |-> s, body |-> d, msg |-> <<>>] :
        s \in BackendStatuses, d \in ModelDocs}
    \cup {[kind |-> "timeout", status |-> 0, body |-> <<>>, msg |-> <<>>]}
    \cup {[kind |-> "transport", status |-> 0, body |-> <<>>, msg |-> m] : m \in TransportMessages}

RECURSIVE Mut_AppendModels(_, _)
\* each descriptor is put in front of the list instead of behind it
Mut_AppendModels(entries, t) ==
    IF entries = <<>> THEN <<>>
    ELSE Mut_AppendModels(Tail(entries), t) \o <<ModelInfo(Head(entries).id, t)>>

RECURSIVE AppendModels(_, _)
\* for model in lm_studio_models["data"]: models.append(ModelInfo(id=model["id"]))
AppendModels(entries, t) ==
    IF entries = <<>> THEN <<>>
    ELSE <<ModelInfo(Head(entries).id, t)>> \o AppendModels(Tail(entries), t)

\* the body of the try block: the data list returned, or an exception raised
\* (by the call, by response.json(), by `"data" in None`, by model["id"])
ListModelsTry(o, t) ==
    CASE o.kind \in {"timeout", "transport"} -> [raised |-> TRUE, data |-> <<>>]
      [] o.kind = "response" ->
            IF o.status = 200
               THEN CASE o.body.shape \in {"notjson", "null"} -> [raised |-> TRUE, data |-> <<>>]
                      [] o.body.shape = "nodata" -> [raised |-> FALSE, data |-> Placeholder(t)]
                      [] o.body.shape = "data" ->
                            IF \E i \in 1..Len(o.body.data) : ~o.body.data[i].hasid
                               THEN [raised |-> TRUE, data |-> <<>>]
                               ELSE [raised |-> FALSE, data |-> AppendModels(o.body.data, t)]
               ELSE [raised |-> FALSE, data |-> Placeholder(t)]

\* the exception is answered with an empty list
Mut_ListModelsExcept(t) == <<>>

\* except Exception: return ModelsResponse(data=[ModelInfo(id="lm-studio-model")])
ListModelsExcept(t) == Placeholder(t)

\* the data list of the ModelsResponse list_models returns
list_models(o, t) ==
    IF ListModelsTry(o, t).raised THEN ListModelsExcept(t) ELSE ListModelsTry(o, t).data

\* list_models, up to the await of client.get
ListModels(r) ==
    /\ pc[r] = "idle"
    /\ req' = [req EXCEPT ![r] = [endpoint |-> "models", stream |-> FALSE]]
    /\ calls' = [calls EXCEPT ![r] = Append(@, ModelsUrl(config))]
    /\ pc' = [pc EXCEPT ![r] = "m_wait"]
    /\ UNCHANGED <<config, backend, sent, bclosed, nread, out, how, resp,
                   acked, catalog, inbound, outbound, gone>>

\* the backend's answer arrives and list_models runs to its end
ListModelsComplete(r) ==
    /\ pc[r] = "m_wait"
    /\ \E o \in ModelOutcomes, t \in Times :
          /\ backend' = [backend EXCEPT ![r] = o]
          /\ catalog' = [catalog EXCEPT ![r] = list_models(o, t)]
    /\ resp' = [resp EXCEPT ![r] = [status |-> 200, body |-> <<"{object: list, data: ", "catalog", "}">>]]
    /\ pc' = [pc EXCEPT ![r] = "done"]
    /\ UNCHANGED <<config, req, calls, sent, bclosed, nread, out, how,
                   acked, inbound, outbound, gone>>

-----------------------------------------------------------------------------
(* GET /health: health_check *)

\* the answers of the backend to the probe of its model listing; the probe
\* does not read the body
HealthOutcomes ==
    {[kind |-> "response", status |-> s, body |-> <<>>, msg |-> <<>>] : s \in BackendStatuses}
    \cup {[kind |-> "timeout", status |-> 0, body |-> <<>>, msg |-> <<>>]}
    \cup {[kind |-> "transport", status |-> 0, body |-> <<>>, msg |-> m] : m \in TransportMessages}

\* the payload with its three keys, or with two when there is no error
HealthPayload(status, connected, error) ==
    <<"{status: ", status, ", lm_studio_connected: ", connected>>
    \o (IF error.present THEN <<", error: ">> \o error.text ELSE <<>>) \o <<"}">>

\* the value health_check returns: 200 is healthy, another status is reported
\* as f"LM Studio returned {response.status_code}", an exception as str(e)
health_check(o) ==
    IF o.kind = "response"
       THEN IF o.status = 200
               THEN HealthPayload("healthy", "True", [present |-> FALSE, text |-> <<>>])
               ELSE HealthPayload("unhealthy", "False",
                       [present |-> TRUE, text |-> <<"LM Studio returned ", StatusStr(o.status)>>])
       ELSE HealthPayload("unhealthy", "False", [present |-> TRUE, text |-> o.msg])

\* health_check, up to the await of client.get
Health(r) ==
    /\ pc[r] = "idle"
    /\ req' = [req EXCEPT ![r] = [endpoint |-> "health", stream |-> FALSE]]
    /\ calls' = [calls EXCEPT ![r] = Append(@, ModelsUrl(config))]
    /\ pc' = [pc EXCEPT ![r] = "h_wait"]
    /\ UNCHANGED <<config, backend, sent, bclosed, nread, out, how, resp,
                   acked, catalog, inbound, outbound, gone>>

\* the backend's answer arrives and health_check runs to its end
HealthComplete(r) ==
    /\ pc[r] = "h_wait"
    /\ \E o \in HealthOutcomes :
          /\ backend' = [backend EXCEPT ![r] = o]
          /\ resp' = [resp EXCEPT ![r] = [status |-> 200, body |-> health_check(o)]]
    /\ pc' = [pc EXCEPT ![r] = "done"]
    /\ UNCHANGED <<config, req, calls, sent, bclosed, nread, out, how,
                   acked, catalog, inbound, outbound, gone>>

-----------------------------------------------------------------------------
(* POST /config *)

\* without the key, the default address is restored
Mut_UpdateConfig ==
    /\ \E body \in {<<>>} \cup {<<u>> : u \in ConfigUrls} :
          /\ config' = IF body # <<>> THEN update_url(config, body[1]) ELSE ConfigInit
          /\ acked' = IF body # <<>> THEN body ELSE acked
    /\ UNCHANGED <<pc, req, calls, backend, sent, bclosed, nread, out, how, resp,
                   catalog, inbound, outbound, gone>>

\* update_config: with the key, Config.update_url; without it, nothing
UpdateConfig ==
    /\ \E body \in {<<>>} \cup {<<u>> : u \in ConfigUrls} :
          /\ config' = IF body # <<>> THEN update_url(config, body[1]) ELSE config
          /\ acked' = IF body # <<>> THEN body ELSE acked
    /\ UNCHANGED <<pc, req, calls, backend, sent, bclosed, nread, out, how, resp,
                   catalog, inbound, outbound, gone>>

\* get_config: {"lm_studio_url": config.lm_studio_url, "api_base": config.api_base}
GetConfig(r) ==
    /\ pc[r] = "idle"
    /\ req' = [req EXCEPT ![r] = [endpoint |-> "getconfig", stream |-> FALSE]]
    /\ resp' = [resp EXCEPT ![r] =
                  [status |-> 200,
                   body |-> <<"{lm_studio_url: ">> \o config.lm_studio_url
                            \o <<", api_base: ">> \o config.api_base \o <<"}">>]]
    /\ pc' = [pc EXCEPT ![r] = "done"]
    /\ UNCHANGED <<config, calls, backend, sent, bclosed, nread, out, how,
                   acked, catalog, inbound, outbound, gone>>

\* root: the service descriptor, with config.lm_studio_url in it
Root(r) ==
    /\ pc[r] = "idle"
    /\ req' = [req EXCEPT ![r] = [endpoint |-> "root", stream |-> FALSE]]
    /\ resp' = [resp EXCEPT ![r] =
                  [status |-> 200,
                   body |-> <<"{name: LM Studio Connector, version: 2.0.0, endpoints: {...}",
                              ", lm_studio_url: ">> \o config.lm_studio_url
                            \o <<", status: running}">>]]
    /\ pc' = [pc EXCEPT ![r] = "done"]
    /\ UNCHANGED <<config, calls, backend, sent, bclosed, nread, out, how,
                   acked, catalog, inbound, outbound, gone>>

-----------------------------------------------------------------------------
(* Request building: ChatCompletionRequest and lm_studio_request *)

(* A value is written as Python prints it: "None", "0", "''", "[]".  A field  *)
(* the caller's JSON body does not hold is "absent".                         *)

\* the messages of a caller's body; a message may hold fields besides role and content
InboundMessages ==
    { [role |-> "user", content |-> "hi", name |-> "absent"],
      [role |-> "system", content |-> "be brief", name |-> "absent"],
      [role |-> "assistant", content |-> "", name |-> "bob"] }

\* the bodies callers send to POST /v1/chat/completions that unmarshal into a
\* ChatCompletionRequest
InboundRequests ==
    [ model : {"x", "y"},
      messages : UNION { [1..k -> InboundMessages] : k \in 0..MaxMsgs },
      temperature : {"absent", "0.1"},
      max_tokens : {"absent", "0", "50"},
      top_p : {"absent", "1.0", "0.5", "None"},
      frequency_penalty : {"absent", "0.5"},
      presence_penalty : {"absent", "0.5"},
      stream : {"absent", "True"},
      stop : {"absent", "''", "[]", "'x'", "['x']"} ]

\* a field of ChatCompletionRequest: the body's value, or the field's default
Field(v, default) == IF v = "absent" THEN default ELSE v

RECURSIVE UnmarshalMessages(_)
\* Message: role and content, other fields of the body are dropped
UnmarshalMessages(ms) ==
    IF ms = <<>> THEN <<>>
    ELSE <<[role |-> Head(ms).role, content |-> Head(ms).content]>> \o UnmarshalMessages(Tail(ms))

\* ChatCompletionRequest, unmarshalled from the body
Unmarshal(b) ==
    [ model |-> b.model,
      messages |-> UnmarshalMessages(b.messages),
      temperature |-> Field(b.temperature, "0.7"),
      max_tokens |-> Field(b.max_tokens, "None"),
      top_p |-> Field(b.top_p, "1.0"),
      frequency_penalty |-> Field(b.frequency_penalty, "0.0"),
      presence_penalty |-> Field(b.presence_penalty, "0.0"),
      stream |-> Field(b.stream, "False"),
      stop |-> Field(b.stop, "None") ]

\* the truth value Python's `if v:` gives a value
Truthy(v) == v \notin {"None", "False", "0", "0.0", "''", "[]"}

\* only the last message is sent
Mut_BuildMessages(ms) ==
    IF ms = <<>> THEN <<>>
    ELSE <<[role |-> ms[Len(ms)].role, content |-> ms[Len(ms)].content]>>

RECURSIVE BuildMessages(_)
\* [{"role": msg.role, "content": msg.content} for msg in request.messages]
BuildMessages(ms) ==
    IF ms = <<>> THEN <<>>
    ELSE <<[role |-> Head(ms).role, content |-> Head(ms).content]>> \o BuildMessages(Tail(ms))

\* the dict a key is added to when the condition holds
AddIf(cond, d, k, v) == IF cond THEN (k :> v) @@ d ELSE d

\* the two penalties are forwarded with the other sampling parameters
Mut_BuildRequest(request) ==
    AddIf(Truthy(request.stop),
          AddIf(request.top_p # "1.0",
                AddIf(Truthy(request.max_tokens),
                      [ model |-> request.model,
                        messages |-> BuildMessages(request.messages),
                        temperature |-> request.temperature,
                        frequency_penalty |-> request.frequency_penalty,
                        presence_penalty |-> request.presence_penalty,
                        stream |-> request.stream ],
                      "max_tokens", request.max_tokens),
                "top_p", request.top_p),
          "stop", request.stop)

\* lm_studio_request, as chat_completions builds it
BuildRequest(request) ==
    AddIf(Truthy(request.stop),
          AddIf(request.top_p # "1.0",
                AddIf(Truthy(request.max_tokens),
                      [ model |-> request.model,
                        messages |-> BuildMessages(request.messages),
                        temperature |-> request.temperature,
                        stream |-> request.stream ],
                      "max_tokens", request.max_tokens),
                "top_p", request.top_p),
          "stop", request.stop)

\* chat_completions, from the unmarshalled body to lm_studio_request
BuildStep ==
    /\ inbound # NoInbound
    /\ outbound = NoOutbound
    /\ outbound' = BuildRequest(Unmarshal(inbound))
    /\ UNCHANGED <<config, pc, req, calls, backend, sent, bclosed, nread, out, how, resp,
                   acked, catalog, inbound, gone>>

-----------------------------------------------------------------------------
(* The body of POST /v1/chat/completions is validated before the handler runs *)

\* the messages of a raw body: role and content may be missing
RawMessages == [role : {"absent", "user"}, content : {"absent", "hi"}]

\* the JSON bodies callers send, well formed or not: model and messages may be
\* missing, a message may lack role or content
RawBodies ==
    [ model : {"absent", "x"},
      messages : {[present |-> FALSE, list |-> <<>>]}
                 \cup {[present |-> TRUE, list |-> l] :
                         l \in UNION { [1..k -> RawMessages] : k \in 0..MaxMsgs }},
      stream : {"absent", "True"} ]

\* a message needs a role only
Mut_ValidMessage(m) == IsStr(m.role)

\* Message: role and content are required
ValidMessage(m) == IsStr(m.role) /\ IsStr(m.content)

\* ChatCompletionRequest: model and messages are required, every other field
\* has a default
Validates(b) ==
    /\ b.model # "absent"
    /\ b.messages.present
    /\ \A i \in 1..Len(b.messages.list) : ValidMessage(b.messages.list[i])

\* POST /v1/chat/completions arrives with the body `inbound`: FastAPI validates
\* it, then calls chat_completions, which runs to its first await
ChatCompletionsDispatch(r) ==
    /\ pc[r] = "idle"
    /\ req' = [req EXCEPT ![r] = [endpoint |-> "chat", stream |-> inbound.stream = "True"]]
    /\ IF ~Validates(inbound)
          THEN /\ resp' = [resp EXCEPT ![r] = ValidationResponse]
               /\ pc' = [pc EXCEPT ![r] = "rejected"]
               /\ UNCHANGED calls
          ELSE IF inbound.stream = "True"
                  THEN /\ resp' = [resp EXCEPT ![r] = [status |-> 200, body |-> <<"text/event-stream">>]]
                       /\ pc' = [pc EXCEPT ![r] = "stream_start"]
                       /\ UNCHANGED calls
                  ELSE /\ calls' = [calls EXCEPT ![r] = IssueCall(@, config)]
                       /\ pc' = [pc EXCEPT ![r] = "ns_wait"]
                       /\ UNCHANGED resp
    /\ UNCHANGED <<config, backend, sent, bclosed, nread, out, how,
                   acked, catalog, inbound, outbound, gone>>

-----------------------------------------------------------------------------
(* The prototype gateway of src/v1.py: chat_endpoint and its generate() *)

\* the delta.content of the chunks the upstream completion yields
V1Contents == {"a", "b", "None"}

\* str(e) of what client.chat.completions.create or its iteration raises
V1Messages == { <<"Connection error.">> }

\* str(e) of the error raised by reading `chunk` when the loop never bound it
V1Unbound == <<"cannot access local variable 'chunk'">>

\* the chunk yielded for a content, the closing chunk, the error chunk
V1ContentEvent(c) == Event(Frame(<<"{delta: {content: ", c, "}, finish_reason: None}">>), "relay")
V1StopEvent == Event(Frame(<<"{delta: {}, finish_reason: stop}">>), "stop")
V1ErrorEvent(msg) == Event(Frame(ErrorJson(msg, "internal_error")), "except")

\* yield "data: [DONE]\n\n", at the end of the try block and in the finally block
V1DoneEvent(site) == Event(Frame(<<DONE>>), site)

\* chat_endpoint: the Response is returned, generate() has not run yet
V1ChatEndpoint(r) ==
    /\ pc[r] = "idle"
    /\ req' = [req EXCEPT ![r] = [endpoint |-> "v1chat", stream |-> TRUE]]
    /\ resp' = [resp EXCEPT ![r] = [status |-> 200, body |-> <<"text/event-stream">>]]
    /\ pc' = [pc EXCEPT ![r] = "v1_create"]
    /\ UNCHANGED <<config, calls, backend, sent, bclosed, nread, out, how,
                   acked, catalog, inbound, outbound, gone>>

\* client.chat.completions.create(...) returns the stream of chunks
V1Create(r) ==
    /\ pc[r] = "v1_create"
    /\ pc' = [pc EXCEPT ![r] = "v1_loop"]
    /\ UNCHANGED <<config, req, calls, backend, sent, bclosed, nread, out, how, resp,
                   acked, catalog, inbound, outbound, gone>>

\* one iteration of `for chunk in completion`: a chunk with content is yielded
V1Chunk(r) ==
    /\ pc[r] = "v1_loop"
    /\ Len(sent[r]) < MaxLines
    /\ \E c \in V1Contents :
          /\ sent' = [sent EXCEPT ![r] = Append(@, <<c>>)]
          /\ out' = [out EXCEPT ![r] = IF c # "None" THEN Append(@, V1ContentEvent(c)) ELSE @]
    /\ nread' = [nread EXCEPT ![r] = @ + 1]
    /\ UNCHANGED <<config, pc, req, calls, backend, bclosed, how, resp,
                   acked, catalog, inbound, outbound, gone>>

\* create(...) or the iteration raises: the except block yields the error
\* chunk, the finally block yields the sentinel
V1Raise(r) ==
    /\ pc[r] \in {"v1_create", "v1_loop"}
    /\ \E msg \in V1Messages :
          out' = [out EXCEPT ![r] = @ \o <<V1ErrorEvent(msg), V1DoneEvent("finally")>>]
    /\ how' = [how EXCEPT ![r] = "except"]
    /\ pc' = [pc EXCEPT ![r] = "v1_closed"]
    /\ UNCHANGED <<config, req, calls, backend, sent, bclosed, nread, resp,
                   acked, catalog, inbound, outbound, gone>>

\* the completion is exhausted: the closing chunk (which reads `chunk`, unbound
\* when the loop ran zero times), the sentinel of the try block, then the
\* sentinel of the finally block
V1Finish(r) ==
    /\ pc[r] = "v1_loop"
    /\ IF nread[r] = 0
          THEN /\ out' = [out EXCEPT ![r] = @ \o <<V1ErrorEvent(V1Unbound), V1DoneEvent("finally")>>]
               /\ how' = [how EXCEPT ![r] = "except"]
          ELSE /\ out' = [out EXCEPT ![r] =
                            @ \o <<V1StopEvent, V1DoneEvent("done"), V1DoneEvent("finally")>>]
               /\ how' = [how EXCEPT ![r] = "eof"]
    /\ pc' = [pc EXCEPT ![r] = "v1_closed"]
    /\ UNCHANGED <<config, req, calls, backend, sent, bclosed, nread, resp,
                   acked, catalog, inbound, outbound, gone>>

-----------------------------------------------------------------------------
Init ==
    /\ config = ConfigInit
    /\ pc = [r \in Procs |-> "idle"]
    /\ req = [r \in Procs |-> NoReq]
    /\ calls = [r \in Procs |-> <<>>]
    /\ backend = [r \in Procs |-> NoBackend]
    /\ sent = [r \in Procs |-> <<>>]
    /\ bclosed = [r \in Procs |-> FALSE]
    /\ nread = [r \in Procs |-> 0]
    /\ out = [r \in Procs |-> <<>>]
    /\ how = [r \in Procs |-> "none"]
    /\ resp = [r \in Procs |-> NoResp]
    /\ acked = <<>>
    /\ catalog = [r \in Procs |-> <<>>]
    /\ inbound = NoInbound
    /\ outbound = NoOutbound
    /\ gone = [r \in Procs |-> "no"]

Next ==
    \/ UpdateConfig
    \/ \E r \in Reqs : ChatCompletionsStream(r)
    \/ \E r \in Reqs : StreamOpen(r)
    \/ \E r \in Reqs : StreamConnectFail(r)
    \/ \E r \in Reqs : StreamStatus(r)
    \/ \E r \in Reqs : BackendSend(r)
    \/ \E r \in Reqs : BackendClose(r)
    \/ \E r \in Reqs : RelayLine(r)
    \/ \E r \in Reqs : RelayEOF(r)
    \/ \E r \in Reqs : RelayDrop(r)
    \/ \E r \in Reqs : ChatCompletionsNonStream(r)
    \/ \E r \in Reqs : ChatNonStreamComplete(r)
    \/ \E r \in Reqs : AskLlmLegacy(r)
    \/ \E r \in Reqs : AskComplete(r)
    \/ \E r \in Reqs : ListModels(r)
    \/ \E r \in Reqs : ListModelsComplete(r)
    \/ \E r \in Reqs : GetConfig(r)
    \/ \E r \in Reqs : Root(r)
    \/ \E r \in Reqs : Health(r)
    \/ \E r \in Reqs : HealthComplete(r)

Spec == Init /\ [][Next]_vars

\* the inputs of request building: any body that unmarshals, nothing in flight
InitBuild ==
    /\ config = ConfigInit
    /\ pc = [r \in Procs |-> "idle"]
    /\ req = [r \in Procs |-> NoReq]
    /\ calls = [r \in Procs |-> <<>>]
    /\ backend = [r \in Procs |-> NoBackend]
    /\ sent = [r \in Procs |-> <<>>]
    /\ bclosed = [r \in Procs |-> FALSE]
    /\ nread = [r \in Procs |-> 0]
    /\ out = [r \in Procs |-> <<>>]
    /\ how = [r \in Procs |-> "none"]
    /\ resp = [r \in Procs |-> NoResp]
    /\ acked = <<>>
    /\ catalog = [r \in Procs |-> <<>>]
    /\ inbound \in InboundRequests
    /\ outbound = NoOutbound
    /\ gone = [r \in Procs |-> "no"]

NextBuild == BuildStep

\* request building, on every body
SpecBuild == InitBuild /\ [][NextBuild]_vars

\* the inputs of validation: any JSON body, nothing in flight
InitValidate ==
    /\ config = ConfigInit
    /\ pc = [r \in Procs |-> "idle"]
    /\ req = [r \in Procs |-> NoReq]
    /\ calls = [r \in Procs |-> <<>>]
    /\ backend = [r \in Procs |-> NoBackend]
    /\ sent = [r \in Procs |-> <<>>]
    /\ bclosed = [r \in Procs |-> FALSE]
    /\ nread = [r \in Procs |-> 0]
    /\ out = [r \in Procs |-> <<>>]
    /\ how = [r \in Procs |-> "none"]
    /\ resp = [r \in Procs |-> NoResp]
    /\ acked = <<>>
    /\ catalog = [r \in Procs |-> <<>>]
    /\ inbound \in RawBodies
    /\ outbound = NoOutbound
    /\ gone = [r \in Procs |-> "no"]

NextValidate ==
    \/ \E r \in Reqs : ChatCompletionsDispatch(r)
    \/ \E r \in Reqs : StreamOpen(r)
    \/ \E r \in Reqs : StreamConnectFail(r)
    \/ \E r \in Reqs : StreamStatus(r)
    \/ \E r \in Reqs : ChatNonStreamComplete(r)

\* POST /v1/chat/completions on every body, up to the backend's answer
SpecValidate == InitValidate /\ [][NextValidate]_vars

NextConc ==
    \/ UpdateConfig
    \/ \E r \in Procs : ChatCompletionsStream(r)
    \/ \E r \in Procs : StreamOpen(r)
    \/ \E r \in Procs : StreamConnectFail(r)
    \/ \E r \in Procs : StreamStatus(r)
    \/ \E r \in Procs : BackendSendTagged(r)
    \/ \E r \in Procs : BackendClose(r)
    \/ \E r \in Procs : RelayLine(r)
    \/ \E r \in Procs : RelayEOF(r)
    \/ \E r \in Procs : RelayDrop(r)

\* two streaming requests in flight at once, and updates of the configuration
SpecConc == Init /\ [][NextConc]_vars

NextV1 ==
    \/ \E r \in Reqs : V1ChatEndpoint(r)
    \/ \E r \in Reqs : V1Create(r)
    \/ \E r \in Reqs : V1Chunk(r)
    \/ \E r \in Reqs : V1Raise(r)
    \/ \E r \in Reqs : V1Finish(r)

\* the prototype gateway's streaming endpoint
SpecV1 == Init /\ [][NextV1]_vars

NextCancel ==
    \/ \E r \in Reqs : ChatCompletionsStream(r)
    \/ \E r \in Reqs : StreamOpen(r)
    \/ \E r \in Reqs : StreamConnectFail(r)
    \/ \E r \in Reqs : StreamStatus(r)
    \/ \E r \in Reqs : BackendSendShort(r)
    \/ \E r \in Reqs : BackendClose(r)
    \/ \E r \in Reqs : RelayLine(r)
    \/ \E r \in Reqs : RelayEOF(r)
    \/ \E r \in Reqs : RelayDrop(r)
    \/ \E r \in Reqs : CallerDisconnect(r)
    \/ \E r \in Reqs : RelayCancelled(r)

\* streams whose caller may disconnect; the server delivers the cancellation
\* of a disconnected caller's response
SpecCancel ==
    Init /\ [][NextCancel]_vars /\ \A r \in Reqs : WF_vars(RelayCancelled(r))

-----------------------------------------------------------------------------
(* What the caller of a stream sees, and what the backend wrote *)

\* the text of the end-of-stream sentinel event
Sentinel == <<DATA, DONE, NL2>>

IsSentinel(ev) == ev.text = Sentinel

\* an error chunk is a synthetic event: one the relay made up, not one it relayed
IsErrorChunk(ev) == ev.site \in {"status", "except"}

\* the kind an error chunk carries in its "type" field
ErrorKind(ev) ==
    IF Len(ev.text) >= 6 /\ ev.text[2] = "{error: {message: "
       THEN ev.text[Len(ev.text) - 2]
       ELSE "none"

\* the message an error chunk carries
ErrorMessage(ev) == SubSeq(ev.text, 3, Len(ev.text) - 4)

\* the payload of an event: its text without "data: " in front and the blank line behind
PayloadOf(ev) == SubSeq(ev.text, 2, Len(ev.text) - 1)

RECURSIVE MapPayload(_)
MapPayload(evs) == IF evs = <<>> THEN <<>> ELSE <<PayloadOf(Head(evs))>> \o MapPayload(Tail(evs))

IsDataEvent(ev) == ~IsSentinel(ev) /\ ~IsErrorChunk(ev)

\* the non-terminal payloads the caller has received, in order
CallerPayloads(r) == MapPayload(SelectSeq(out[r], IsDataEvent))

\* a line of the backend that is a data frame
IsDataFrame(line) == Len(line) >= 1 /\ line[1] = DATA

IsNotWS(t) == t # WS

\* a data frame whose payload is the end marker, whitespace aside
IsEndMarker(line) == IsDataFrame(line) /\ SelectSeq(SubSeq(line, 2, Len(line)), IsNotWS) = <<DONE>>

RECURSIVE BeforeEndMarker(_)
\* the lines written before the first end marker
BeforeEndMarker(lines) ==
    IF lines = <<>> \/ IsEndMarker(Head(lines))
       THEN <<>>
       ELSE <<Head(lines)>> \o BeforeEndMarker(Tail(lines))

RECURSIVE MapFramePayload(_)
MapFramePayload(lines) ==
    IF lines = <<>> THEN <<>>
    ELSE <<SubSeq(Head(lines), 2, Len(Head(lines)))>> \o MapFramePayload(Tail(lines))

\* the payloads of the data frames the backend wrote before its end marker
BackendPayloads(r) == MapFramePayload(SelectSeq(BeforeEndMarker(sent[r]), IsDataFrame))

IsPrefix(a, b) == Len(a) <= Len(b) /\ a = SubSeq(b, 1, Len(a))

HasEndMarker(lines) == \E i \in 1..Len(lines) : IsEndMarker(lines[i])

\* the stream of r has ended
Closed(r) == pc[r] = "closed"

\* the number of events of out[r] that satisfy P
Count(r, P(_)) == Cardinality({i \in 1..Len(out[r]) : P(out[r][i])})

-----------------------------------------------------------------------------
(* C1..C5: the streaming relay *)

\* C1: every streaming response ends with the sentinel data: [DONE] as its last
\* event, on every path (end marker, non-200, transport failure, EOF).
C1_EndsWithSentinel ==
    \A r \in Reqs :
        Closed(r) => out[r] # <<>> /\ IsSentinel(out[r][Len(out[r])])

\* C2: at every point of the relay the non-terminal payloads emitted to the
\* caller are a prefix of the data-frame payloads the backend wrote before its
\* end marker, and are equal to them when the backend finished normally (the
\* relay read the end marker, or the end of the stream).
C2_OrderAndContentPreserved ==
    \A r \in Reqs :
        /\ IsPrefix(CallerPayloads(r), BackendPayloads(r))
        /\ (Closed(r) /\ how[r] \in {"break", "eof"}) => CallerPayloads(r) = BackendPayloads(r)

\* C2 witness: a stream that ended normally after two chunks were relayed
C2_Witness ==
    \E r \in Reqs :
        /\ Closed(r) /\ how[r] = "break"
        /\ Len(CallerPayloads(r)) = 2
        /\ CallerPayloads(r)[1] # CallerPayloads(r)[2]

\* C3: the sentinel is emitted at most once, and nothing is emitted after it,
\* even if the backend keeps writing lines after its first end marker.
C3_SentinelOnceAndLast ==
    \A r \in Reqs :
        \A i \in 1..Len(out[r]) : IsSentinel(out[r][i]) => i = Len(out[r])

\* C3 witness: the sentinel was emitted and the backend wrote a second end
\* marker and a data frame after the first
C3_Witness ==
    \E r \in Reqs :
        /\ Closed(r) /\ Count(r, IsSentinel) = 1
        /\ nread[r] + 2 = Len(sent[r])
        /\ IsEndMarker(sent[r][nread[r] + 1])
        /\ IsDataFrame(sent[r][nread[r] + 2]) /\ ~IsEndMarker(sent[r][nread[r] + 2])

\* C4: when the backend answers a streaming request with a non-2xx status, the
\* caller receives exactly one api_error chunk whose message names the status,
\* followed by the sentinel, and no data chunk.
C4_StatusErrorThenSentinel ==
    \A r \in Reqs :
        (Closed(r) /\ backend[r].kind = "response" /\ backend[r].status # 200) =>
            /\ Len(out[r]) = 2
            /\ IsErrorChunk(out[r][1]) /\ ErrorKind(out[r][1]) = "api_error"
            /\ ErrorMessage(out[r][1]) = <<"LM Studio error: ", StatusStr(backend[r].status)>>
            /\ IsSentinel(out[r][2])

\* C5: when the transport fails (at open, or after k >= 0 relayed chunks) the
\* relay emits exactly one connection_error chunk after the chunks already
\* relayed, no data chunk after it, and closes; a stream that ended by a
\* failure has an error chunk.
C5_TransportFailureOneErrorChunk ==
    \A r \in Reqs :
        /\ (Closed(r) /\ how[r] = "except") =>
              /\ Count(r, IsErrorChunk) = 1
              /\ IsErrorChunk(out[r][Len(out[r])])
              /\ ErrorKind(out[r][Len(out[r])]) = "connection_error"
              /\ MapPayload(SubSeq(out[r], 1, Len(out[r]) - 1)) = CallerPayloads(r)
              /\ Len(CallerPayloads(r)) = Len(out[r]) - 1
        /\ (Closed(r) /\ how[r] \in {"except", "status"}) => Count(r, IsErrorChunk) >= 1
        /\ (Closed(r) /\ backend[r].kind \in {"timeout", "transport"}) => how[r] = "except"

\* C5 witness: the connection dropped after two chunks were relayed
C5_Witness ==
    \E r \in Reqs :
        /\ Closed(r) /\ how[r] = "except"
        /\ backend[r].kind = "response"
        /\ Len(CallerPayloads(r)) = 2

-----------------------------------------------------------------------------
(* C6..C10: the non-stream path *)

\* r is a finished non-stream request to POST /v1/chat/completions
ChatDone(r) == pc[r] = "done" /\ req[r].endpoint = "chat"

\* two bodies hold the same JSON document: the same text, whitespace around it aside
SameJson(a, b) == SelectSeq(a, IsNotWS) = SelectSeq(b, IsNotWS)

\* the body is a well-formed JSON document
IsJson(b) == Len(SelectSeq(b, IsNotWS)) = 1 /\ SelectSeq(b, IsNotWS)[1] \in JsonDocs

\* the error kind a response body carries in a "type" field, if it has one
BodyErrorKind(b) ==
    IF \E i \in 1..Len(b) - 1 : b[i] = ", type: "
       THEN b[(CHOOSE i \in 1..Len(b) - 1 : b[i] = ", type: ") + 1]
       ELSE "none"

\* text t occurs in text b, verbatim
Contains(b, t) == \E i \in 0..(Len(b) - Len(t)) : SubSeq(b, i + 1, i + Len(t)) = t

\* C6, as stated: whenever the backend returns HTTP 200 with body B, the
\* gateway's response is HTTP 200 with a body equal to B.
C6_PassThroughAnyBody ==
    \A r \in Reqs :
        (ChatDone(r) /\ backend[r].kind = "response" /\ backend[r].status = 200) =>
            resp[r].status = 200 /\ SameJson(resp[r].body, backend[r].body)

\* C6, amended: whenever the backend returns HTTP 200 with a body B that is a
\* well-formed JSON document, the gateway's response is HTTP 200 with a body
\* that holds the same document; a 200 whose body is not JSON is answered 500.
C6_PassThroughJson ==
    \A r \in Reqs :
        (ChatDone(r) /\ backend[r].kind = "response" /\ backend[r].status = 200) =>
            IF IsJson(backend[r].body)
               THEN resp[r].status = 200 /\ SameJson(resp[r].body, backend[r].body)
               ELSE resp[r].status = 500

\* C6 witness: a 200 with a completion document was passed through
C6_Witness ==
    \E r \in Reqs :
        /\ ChatDone(r) /\ backend[r].kind = "response" /\ backend[r].status = 200
        /\ IsJson(backend[r].body) /\ resp[r].status = 200
        /\ Contains(resp[r].body, <<"{choices:[m]}">>)

\* C7: when the backend answers a non-stream request with a status S other
\* than 200 and body text T, the caller's error response has HTTP status S and
\* carries T verbatim in its message.
C7_BackendStatusSurfaced ==
    \A r \in Reqs :
        (ChatDone(r) /\ backend[r].kind = "response" /\ backend[r].status # 200) =>
            resp[r].status = backend[r].status /\ Contains(resp[r].body, backend[r].body)

\* C8: when the backend call of a non-stream request times out, the caller
\* receives HTTP status 504, not 500.
C8_TimeoutIs504 ==
    \A r \in Reqs :
        (ChatDone(r) /\ backend[r].kind = "timeout") => resp[r].status = 504

\* C9, as stated: against an unreachable backend the response of a non-stream
\* request has HTTP status 500 or 504 and its body carries an error kind that
\* is connection_error or timeout.
C9_UnreachableKindInBody ==
    \A r \in Reqs :
        (ChatDone(r) /\ backend[r].kind \in {"timeout", "transport"}) =>
            /\ resp[r].status \in {500, 504}
            /\ BodyErrorKind(resp[r].body) \in {"connection_error", "timeout"}

\* C9, amended: against an unreachable backend the response of a non-stream
\* request has HTTP status 500 or 504 and its body is {detail: <description of
\* the failure>}; it carries no error kind.
C9_UnreachableDetailOnly ==
    \A r \in Reqs :
        (ChatDone(r) /\ backend[r].kind \in {"timeout", "transport"}) =>
            /\ resp[r].status \in {500, 504}
            /\ resp[r].body[1] = "{detail: "
            /\ Contains(resp[r].body, backend[r].msg)
            /\ BodyErrorKind(resp[r].body) = "none"

\* C9 witness: the connection to the backend failed and the request was answered
C9_Witness ==
    \E r \in Reqs :
        /\ ChatDone(r) /\ backend[r].kind = "transport"
        /\ backend[r].msg # <<>>
        /\ resp[r].status = 500

\* r carries a completion request: a chat request, or an /ask from whose body
\* a completion request can be made (an object whose prompt is a string or missing)
IsCompletionRequest(r) ==
    \/ req[r].endpoint = "chat"
    \/ req[r].endpoint = "ask" /\ req[r].body.object /\ req[r].body.prompt # "None"

-----------------------------------------------------------------------------
(* C11..C13: the model catalog *)

\* r is a finished request to GET /v1/models
ModelsDone(r) == pc[r] = "done" /\ req[r].endpoint = "models"

\* the ids of a data list, in order
RECURSIVE Ids(_)
Ids(l) == IF l = <<>> THEN <<>> ELSE <<Head(l).id>> \o Ids(Tail(l))

\* the backend answered 200 with a data list whose entries all have an id
Recognized(o) ==
    /\ o.kind = "response" /\ o.status = 200
    /\ o.body.shape = "data"
    /\ \A i \in 1..Len(o.body.data) : o.body.data[i].hasid

\* C11: GET /v1/models never returns an empty catalog, whatever the backend
\* answers (a data list with zero entries included).
C11_CatalogNeverEmpty ==
    \A r \in Reqs : ModelsDone(r) => Len(catalog[r]) >= 1

\* C12: GET /v1/models never fails: on a non-2xx status, an unrecognized shape
\* (no data key, an entry without id), a failed or timed-out call, the answer
\* is a successful response whose catalog is exactly one placeholder
\* descriptor with id lm-studio-model.
C12_FallbackCatalog ==
    \A r \in Reqs :
        ModelsDone(r) =>
            /\ resp[r].status = 200
            /\ ~Recognized(backend[r]) =>
                  /\ Len(catalog[r]) = 1
                  /\ catalog[r][1].id = "lm-studio-model"
                  /\ catalog[r][1].object = "model"

\* C12 witness: the backend answered 200 with a list whose second entry has no id
C12_Witness ==
    \E r \in Reqs :
        /\ ModelsDone(r) /\ backend[r].kind = "response" /\ backend[r].status = 200
        /\ backend[r].body.shape = "data" /\ Len(backend[r].body.data) = 2
        /\ backend[r].body.data[1].hasid /\ ~backend[r].body.data[2].hasid
        /\ Ids(catalog[r]) = <<"lm-studio-model">>

\* C13: when the backend answers 200 with data = [e1..en], every entry with
\* an id, the catalog has exactly n descriptors with the ids e1.id..en.id in
\* that order, each with object model and synthesized created and owned_by.
C13_CatalogMapsEntries ==
    \A r \in Reqs :
        (ModelsDone(r) /\ Recognized(backend[r])) =>
            /\ Len(catalog[r]) = Len(backend[r].body.data)
            /\ Ids(catalog[r]) = Ids(backend[r].body.data)
            /\ \A i \in 1..Len(catalog[r]) :
                  /\ catalog[r][i].object = "model"
                  /\ catalog[r][i].owned_by = "lm-studio"
                  /\ catalog[r][i].created \in Times

\* C13 witness: the backend listed m2 and then m1
C13_Witness ==
    \E r \in Reqs :
        /\ ModelsDone(r) /\ Recognized(backend[r])
        /\ Ids(backend[r].body.data) = <<"m2", "m1">>
        /\ Len(catalog[r]) = 2

-----------------------------------------------------------------------------
(* C14..C16: the backend locator *)

\* u ends with no separator
NoTrailingSlash(u) == u = <<>> \/ u[Len(u)] # "/"

\* t is u without its trailing separators: u is t followed by separators only
IsTrimOf(t, u) ==
    /\ NoTrailingSlash(t)
    /\ IsPrefix(t, u)
    /\ \A i \in (Len(t) + 1)..Len(u) : u[i] = "/"

\* the API path the last acknowledged update stands for (the default before any)
AckedBase ==
    IF acked = <<>>
       THEN <<"http://localhost:1234", "/v1">>
       ELSE (CHOOSE t \in {SubSeq(acked[1], 1, k) : k \in 0..Len(acked[1])} : IsTrimOf(t, acked[1]))
            \o <<"/v1">>

\* the position of token t in body b
IndexOf(b, t) == CHOOSE i \in 1..Len(b) : b[i] = t

\* what a GET /config response reports as lm_studio_url and as api_base
ReportedUrl(b) == SubSeq(b, 2, IndexOf(b, ", api_base: ") - 1)
ReportedBase(b) == SubSeq(b, IndexOf(b, ", api_base: ") + 1, Len(b) - 1)

ConfigRead(r) == pc[r] = "done" /\ req[r].endpoint = "getconfig"

\* C14: once POST /config with lm_studio_url = U is acknowledged, every backend
\* call issued afterwards (models, non-stream completion, stream open) targets
\* U's API path until the next update, and the configuration is that of the
\* last acknowledged update.
C14_CallsTargetLastUpdate ==
    /\ [](acked # <<>> => config.api_base = AckedBase)
    /\ [][\A r \in Reqs :
            calls'[r] # calls[r] =>
                /\ Len(calls'[r]) = Len(calls[r]) + 1
                /\ IsPrefix(AckedBase, calls'[r][Len(calls'[r])])
                /\ Len(calls'[r][Len(calls'[r])]) = Len(AckedBase) + 1]_vars

\* C14 witness: after an acknowledged update to http://other:8080 a stream was
\* opened, at the new address
C14_Witness ==
    \E r \in Reqs :
        /\ pc[r] = "stream_wait"
        /\ acked = << <<"http://other:8080">> >>
        /\ calls[r] = << <<"http://other:8080", "/v1", "/chat/completions">> >>

\* C15: no reader observes a partially updated configuration: in every state
\* api_base is lm_studio_url followed by /v1, and so is what every GET /config
\* reported.
C15_ConfigNeverTorn ==
    /\ config.api_base = config.lm_studio_url \o <<"/v1">>
    /\ \A r \in Reqs :
          ConfigRead(r) => ReportedBase(resp[r].body) = ReportedUrl(resp[r].body) \o <<"/v1">>

\* C15 witness: a GET /config answered after an update reported the new address
C15_Witness ==
    \E r \in Reqs :
        /\ ConfigRead(r) /\ acked # <<>>
        /\ ReportedUrl(resp[r].body) = <<"http://host:9999">>
        /\ ReportedBase(resp[r].body) = <<"http://host:9999", "/v1">>

\* C16: POST /config with lm_studio_url = U stores U without its trailing
\* separators and the API path recomputed from it; GET /config reports no
\* trailing separator; the update applied again to the trimmed value changes
\* nothing.
C16_UrlTrimmedAndIdempotent ==
    /\ acked # <<>> =>
          /\ IsTrimOf(config.lm_studio_url, acked[1])
          /\ config.api_base = config.lm_studio_url \o <<"/v1">>
          /\ update_url(config, config.lm_studio_url) = config
    /\ \A r \in Reqs :
          ConfigRead(r) =>
              /\ NoTrailingSlash(ReportedUrl(resp[r].body))
              /\ ReportedBase(resp[r].body) = ReportedUrl(resp[r].body) \o <<"/v1">>

\* C16 witness: the update carried two trailing separators and GET /config
\* reported the address without them
C16_Witness ==
    \E r \in Reqs :
        /\ acked = << <<"http://host:9999", "/", "/">> >>
        /\ ConfigRead(r)
        /\ ReportedUrl(resp[r].body) = <<"http://host:9999">>

-----------------------------------------------------------------------------
(* C17, C18: the backend-bound request *)

\* lm_studio_request has been built
Built == outbound # NoOutbound

\* the keys of the backend-bound request
OutKeys == DOMAIN outbound

\* C17: the backend-bound request contains max_tokens iff the caller supplied
\* max_tokens, stop iff the caller supplied stop, and top_p iff the caller
\* supplied a top_p other than 1.0, each with the caller's value; for every
\* supplied value, max_tokens = 0, an empty stop and a null top_p included.
C17_OptionalsForwardedIffSupplied ==
    Built =>
        /\ ("max_tokens" \in OutKeys) <=> (inbound.max_tokens # "absent")
        /\ ("stop" \in OutKeys) <=> (inbound.stop # "absent")
        /\ ("top_p" \in OutKeys) <=> (inbound.top_p \notin {"absent", "1.0"})
        /\ "max_tokens" \in OutKeys => outbound["max_tokens"] = inbound.max_tokens
        /\ "stop" \in OutKeys => outbound["stop"] = inbound.stop
        /\ "top_p" \in OutKeys => outbound["top_p"] = inbound.top_p

\* C18: the backend-bound request always contains model, temperature and the
\* stream flag equal to the inbound values, and a messages list of the same
\* length and order, each entry with exactly the role and content of the
\* inbound message.
C18_CoreFieldsCopied ==
    Built =>
        /\ {"model", "messages", "temperature", "stream"} \subseteq OutKeys
        /\ outbound["model"] = inbound.model
        /\ outbound["temperature"] = (IF inbound.temperature = "absent" THEN "0.7" ELSE inbound.temperature)
        /\ outbound["stream"] = (IF inbound.stream = "absent" THEN "False" ELSE inbound.stream)
        /\ Len(outbound["messages"]) = Len(inbound.messages)
        /\ \A i \in 1..Len(inbound.messages) :
              /\ DOMAIN outbound["messages"][i] = {"role", "content"}
              /\ outbound["messages"][i].role = inbound.messages[i].role
              /\ outbound["messages"][i].content = inbound.messages[i].content

\* C18 witness: a request with a system and a user message, before an
\* assistant message with an extra field, was built
C18_Witness ==
    /\ Built
    /\ Len(inbound.messages) = 2
    /\ inbound.messages[1].role = "system" /\ inbound.messages[2].name = "bob"
    /\ inbound.temperature = "0.1" /\ inbound.stream = "True"

-----------------------------------------------------------------------------
(* C19, C20: malformed payloads, the caller's disconnect *)

\* the payloads that are JSON chunks
JsonChunks == { <<"{c1}">>, <<"{c2}">> }

\* C19: a data frame whose payload is neither JSON nor the end marker is
\* skipped: no event is emitted for it, the stream is not aborted and the
\* chunks that follow are relayed in order.
C19_MalformedSkipped ==
    \A r \in Reqs :
        /\ \A i \in 1..Len(out[r]) :
              IsDataEvent(out[r][i]) => PayloadOf(out[r][i]) \in JsonChunks
        /\ (Closed(r) /\ how[r] \in {"break", "eof"}) =>
              CallerPayloads(r) = SelectSeq(BackendPayloads(r), LAMBDA p : p \in JsonChunks)

-----------------------------------------------------------------------------
(* GET /health *)

\* the request r was a health probe and has been answered
HealthDone(r) == pc[r] = "done" /\ req[r].endpoint = "health"

\* the fields of a health payload
HealthStatus(body) == body[2]
HealthConnected(body) == body[4]
HealthHasError(body) == Len(body) > 5
HealthError(body) == SubSeq(body, 7, Len(body) - 1)

\* the backend answered the probe with a success status
AnsweredOk(o) == o.kind = "response" /\ o.status \in 200..299

\* C21: GET /health answers 200 for every backend outcome; status is healthy
\* exactly when lm_studio_connected is true, and then the backend answered
\* successfully and the payload has no error field; a non-2xx status or a
\* transport failure gives unhealthy, lm_studio_connected false and a
\* non-empty error detail.
C21_HealthNeverFails ==
    \A r \in Reqs :
        HealthDone(r) =>
            /\ resp[r].status = 200
            /\ HealthStatus(resp[r].body) \in {"healthy", "unhealthy"}
            /\ (HealthStatus(resp[r].body) = "healthy") <=> (HealthConnected(resp[r].body) = "True")
            /\ HealthConnected(resp[r].body) = "True" => AnsweredOk(backend[r])
            /\ HealthStatus(resp[r].body) = "healthy" => ~HealthHasError(resp[r].body)
            /\ ~AnsweredOk(backend[r]) =>
                  /\ HealthStatus(resp[r].body) = "unhealthy"
                  /\ HealthConnected(resp[r].body) = "False"
                  /\ HealthHasError(resp[r].body)
                  /\ HealthError(resp[r].body) # <<>>

-----------------------------------------------------------------------------
(* Malformed bodies *)

\* a body that lacks model or messages, or holds a message without role or
\* without content
IsMalformed(b) ==
    \/ b.model = "absent"
    \/ ~b.messages.present
    \/ \E i \in 1..Len(b.messages.list) :
          b.messages.list[i].role = "absent" \/ b.messages.list[i].content = "absent"

\* the request r carried a body that does not unmarshal, and has been answered
Rejected(r) == pc[r] # "idle" /\ req[r].endpoint = "chat" /\ IsMalformed(inbound)

\* C22 as stated: a malformed body of POST /v1/chat/completions is answered
\* with HTTP 500 and error kind internal_error, and no call reaches the backend.
C22_MalformedIs500 ==
    \A r \in Reqs :
        Rejected(r) =>
            /\ resp[r].status = 500
            /\ BodyErrorKind(resp[r].body) = "internal_error"
            /\ calls[r] = <<>>

\* C22, as the code has it: a malformed body of POST /v1/chat/completions is
\* answered with HTTP 422 and a {detail} body without an error kind, the
\* handler does not run, and no call reaches the backend at any time.
C22_MalformedIs422 ==
    \A r \in Reqs :
        Rejected(r) =>
            /\ pc[r] = "rejected"
            /\ resp[r] = ValidationResponse
            /\ resp[r].status = 422
            /\ BodyErrorKind(resp[r].body) = "none"
            /\ calls[r] = <<>>
            /\ backend[r] = NoBackend

\* C22 witness: a body with a model and one message that has a role but no
\* content was rejected
C22_Witness ==
    \E r \in Reqs :
        /\ Rejected(r) /\ pc[r] = "rejected"
        /\ inbound.model = "x" /\ inbound.messages.present
        /\ Len(inbound.messages.list) = 1
        /\ inbound.messages.list[1] = [role |-> "user", content |-> "absent"]

-----------------------------------------------------------------------------
(* POST /ask *)

\* the request r was a POST /ask and has been answered
AskAnswered(r) == pc[r] \in {"done", "rejected"} /\ req[r].endpoint = "ask"

\* the answer is {response: ...} or {error: ...}
IsResponseAnswer(b) == b # <<>> /\ b[1] = "{response: " /\ ~Contains(b, <<"{error: ">>)
IsErrorAnswer(b) == b # <<>> /\ b[1] = "{error: " /\ ~Contains(b, <<"{response: ">>)

\* the backend answered 200 with a completion, whose first choice has content c
AnsweredWithChoice(o, c) ==
    /\ o.kind = "response" /\ o.status = 200
    /\ \/ c = "m" /\ SelectSeq(o.body, IsNotWS) = <<"{choices:[m]}">>
       \/ c = "n" /\ SelectSeq(o.body, IsNotWS) = <<"{choices:[n,m]}">>

\* the backend returned no choices, a status other than 200, or no answer
AnsweredWithout(o) ==
    \/ o.kind \in {"timeout", "transport"}
    \/ o.kind = "response" /\ o.status # 200
    \/ o.kind = "response" /\ SelectSeq(o.body, IsNotWS) \in {<<"{choices:[]}">>, <<"{}">>}

\* the prompt of an /ask body, as the text a message holds
PromptText(b) == IF b.prompt = "absent" THEN "" ELSE b.prompt

\* one non-stream call was issued for r, with the prompt as its only message
OneAskCall(r) ==
    /\ Len(calls[r]) = 1
    /\ calls[r][1][Len(calls[r][1])] = "/chat/completions"
    /\ outbound.stream = "False"
    /\ outbound.messages = <<[role |-> "user", content |-> PromptText(req[r].body)]>>

\* what the answer is, given the backend's: the first choice's content, or an error
AnswerFollowsBackend(r) ==
    /\ \A c \in {"m", "n"} :
          AnsweredWithChoice(backend[r], c) => resp[r].body = <<"{response: ", c, "}">>
    /\ AnsweredWithout(backend[r]) => IsErrorAnswer(resp[r].body)

-----------------------------------------------------------------------------
(* The configuration's frame *)

\* the step belongs to a handler other than update_config: a request moved on
HandlerStep == pc' # pc

\* C24: the configuration changes only in a POST /config that carries an
\* lm_studio_url key, and then to that url (trimmed) and its API path; every
\* step of every other handler (GET /config, GET /, /health, /v1/models, chat
\* completions in both modes, /ask), error paths included, and a POST /config
\* without the key leave lm_studio_url and api_base as they are; no step
\* changes the timeout.
C24_ConfigFrame ==
    [][/\ config'.timeout = config.timeout
       /\ HandlerStep => config' = config
       /\ acked' = acked => config' = config
       /\ config' # config =>
             /\ ~HandlerStep
             /\ acked' \in {<<u>> : u \in ConfigUrls}
             /\ IsTrimOf(config'.lm_studio_url, acked'[1])
             /\ config'.api_base = config'.lm_studio_url \o <<"/v1">>]_vars

\* C24 witness: after an update, a non-stream completion failed with 500 and
\* the configuration is still the updated one, with the timeout it began with
C24_Witness ==
    \E r \in Reqs :
        /\ ChatDone(r) /\ resp[r].status = 500
        /\ acked = << <<"http://other:8080">> >>
        /\ calls[r] = << <<"http://other:8080", "/v1", "/chat/completions">> >>
        /\ config.lm_studio_url = <<"http://other:8080">>
        /\ config.timeout = DefaultTimeout

-----------------------------------------------------------------------------
(* Concurrency *)

RECURSIVE RelayedPayloads(_)
\* what a relay emits for the lines it has read, absent any failure: the
\* payload of each data frame, up to and including the first end marker
RelayedPayloads(lines) ==
    IF lines = <<>> THEN <<>>
    ELSE IF IsEndMarker(Head(lines)) THEN << <<DONE>> >>
    ELSE IF IsDataFrame(Head(lines))
            THEN <<SubSeq(Head(lines), 2, Len(Head(lines)))>> \o RelayedPayloads(Tail(lines))
            ELSE RelayedPayloads(Tail(lines))

IsRelayedEvent(ev) == ~IsErrorChunk(ev)

\* the address of the call that opened the stream of r
OpenedAt(r) == calls[r][1]

\* C25: a POST /config that interleaves with an in-flight relay does not affect
\* it: the step of the update changes nothing of any request, the address a
\* stream was opened at is the one config held at that moment and is kept, and
\* what a relay has emitted is determined by the lines it has read from its own
\* upstream connection alone; the chunks of two relays running at once are
\* never mixed: each caller receives chunks of its own connection only.
C25_RelaysIndependent ==
    /\ [](\A r \in Procs :
            /\ nread[r] <= Len(sent[r])
            /\ MapPayload(SelectSeq(out[r], IsRelayedEvent))
                  = RelayedPayloads(SubSeq(sent[r], 1, nread[r]))
            /\ \A i \in 1..Len(CallerPayloads(r)) : CallerPayloads(r)[i] = <<r>>)
    /\ [][/\ config' # config =>
                UNCHANGED <<pc, req, calls, backend, sent, bclosed, nread, out, how, resp>>
          /\ \A r \in Procs :
                /\ calls[r] # <<>> => calls'[r] = calls[r]
                /\ (calls[r] = <<>> /\ calls'[r] # <<>>) =>
                      calls'[r] = <<config.api_base \o <<"/chat/completions">> >>]_vars

\* C25 witness: two relays are in flight, each has relayed a chunk, and the
\* configuration was updated after the first had opened its stream: the first
\* still reads from the default address, the second from the new one
C25_Witness ==
    /\ pc["r1"] = "relay" /\ pc["r2"] = "relay"
    /\ CallerPayloads("r1") = << <<"r1">> >>
    /\ CallerPayloads("r2") = << <<"r2">> >>
    /\ OpenedAt("r1") = <<"http://localhost:1234", "/v1", "/chat/completions">>
    /\ OpenedAt("r2") = <<"http://other:8080", "/v1", "/chat/completions">>
    /\ config.lm_studio_url = <<"http://host:9999">>

-----------------------------------------------------------------------------
(* The prototype gateway *)

\* the stream generate() produced for r has ended
V1Closed(r) == pc[r] = "v1_closed"

\* C26: every stream produced by generate() of v1.py carries the sentinel
\* exactly once, as its last event, when the upstream completion finishes
\* normally and when it raises.
C26_V1SentinelOnce ==
    \A r \in Reqs :
        V1Closed(r) =>
            /\ Count(r, IsSentinel) = 1
            /\ IsSentinel(out[r][Len(out[r])])

-----------------------------------------------------------------------------
(* Lines that are not data frames *)

\* C27: during a relay, a backend line that does not begin with `data: ` (a
\* blank line, a comment, another field) produces no event and neither ends
\* nor fails the stream: reading it leaves the events emitted and the relay's
\* state as they were.
C27_NonDataLineIgnored ==
    [][\A r \in Reqs :
          (/\ pc[r] = "relay"
           /\ nread'[r] = nread[r] + 1
           /\ ~IsDataFrame(sent[r][nread'[r]])) =>
              /\ out'[r] = out[r]
              /\ pc'[r] = "relay"
              /\ how'[r] = how[r]
              /\ resp'[r] = resp[r]]_vars

\* C27 witness: the relay read a blank line and a comment, emitted nothing for
\* them, and then relayed the chunk that followed
C27_Witness ==
    \E r \in Reqs :
        /\ pc[r] = "relay" /\ nread[r] = 3
        /\ sent[r][1] = <<>> /\ sent[r][2] = <<": ping">>
        /\ Len(out[r]) = 1
        /\ CallerPayloads(r) = << <<"{c1}">> >>

-----------------------------------------------------------------------------
(* The keys of the backend-bound request *)

\* C28: for every inbound completion request the keys of the backend-bound
\* request are among model, messages, temperature, stream, max_tokens, top_p
\* and stop: frequency_penalty and presence_penalty are never forwarded,
\* whatever values the caller supplied.
C28_PenaltiesNeverForwarded ==
    Built =>
        /\ OutKeys \subseteq {"model", "messages", "temperature", "stream",
                              "max_tokens", "top_p", "stop"}
        /\ "frequency_penalty" \notin OutKeys
        /\ "presence_penalty" \notin OutKeys

\* C28 witness: a request that supplied both penalties, and every optional
\* parameter that is forwarded, has been built
C28_Witness ==
    /\ Built
    /\ inbound.frequency_penalty = "0.5" /\ inbound.presence_penalty = "0.5"
    /\ OutKeys = {"model", "messages", "temperature", "stream", "max_tokens", "top_p", "stop"}

====
